---- MODULE Spec2Model ----
(***************************************************************************)
(* Model of the Botty chat bot runtime: SlackBot (src/src/bot.py) and its   *)
(* subclass Botty with IncomingMessage (src/src/botty.py).                  *)
(*                                                                         *)
(* One thread runs start_loop -> start -> on_step / on_message -> plugins;  *)
(* plugins call back into say / say_complete.  Time is time.monotonic() in  *)
(* ticks of 1/TicksPerSecond s; time.sleep(d) returns d or more later.      *)
(***************************************************************************)
EXTENDS Integers, Sequences, FiniteSets, TLC

\* ------------------------------------------------------------------ bounds
TicksPerSecond == 2 \* resolution of the clock
MaxSeconds == 12    \* no sleep is started that would end after this second
MaxSayTime == 8     \* the last tick, where say is called at arbitrary times
MaxOversleep == 2   \* most ticks a time.sleep() lasts longer than asked
MaxReads == 3       \* total number of events the transport delivers
MaxIdReads == 1     \* the same, where sends fail and the session restarts
MaxBatch == 2       \* most events one rtm_read() returns
MaxSends == 2       \* most say() calls that reach the id assignment
MaxSaySends == 3    \* the same, where say is called at arbitrary times
NumPlugins == 3     \* number of registered plugins

\* ------------------------------------------------------- program constants
SayIntervalSeconds == 1  \* bot.py:111  "rate limit sending to 1 per second"
RestartSeconds == 5      \* bot.py:53   time.sleep(5) in start_loop
PingSeconds == 5         \* bot.py:96   ping when more than 5 s since last ping
FirstMessageId == 1     \* bot.py:37   self.max_message_id = 1
InitialSayTime == 0     \* bot.py:38   self.last_say_time = 0
RecentEventsMax == 2000 \* botty.py:55 deque(maxlen=2000)

\* the same, in ticks
MaxTime == MaxSeconds * TicksPerSecond
SayInterval == SayIntervalSeconds * TicksPerSecond
\* (mutation: the back-off is as short as the send interval)
ShortDelay == SayIntervalSeconds * TicksPerSecond
RestartDelay == RestartSeconds * TicksPerSecond
PingInterval == PingSeconds * TicksPerSecond

Max(a, b) == IF a >= b THEN a ELSE b

\* ---------------------------------------------------------- raw event dicts
\* A message_dict is a record; a key that is missing holds "ABSENT" (reply_to:
\* 0), a key whose value is None holds "NONE", and a key whose value is
\* neither a string nor None (a number, a list, ...) holds "NONSTR".
\* `message` and `item` say what the nested value is: "ABSENT", "DICT" or
\* "NONDICT"; the keys of a nested dict are flattened into m_* and i_*, which
\* all hold "ABSENT" unless the nested value is a dict.
Absent == "ABSENT"
NonStr == "NONSTR"
Dict == "DICT"
NonDict == "NONDICT"

BlankEvent ==
  [type |-> Absent, subtype |-> Absent, user |-> Absent, channel |-> Absent, ts |-> Absent,
   thread_ts |-> Absent, text |-> Absent, reaction |-> Absent,
   ok |-> Absent, reply_to |-> 0,
   message |-> Absent, m_user |-> Absent, m_channel |-> Absent,
   m_thread_ts |-> Absent, m_text |-> Absent,
   item |-> Absent, i_channel |-> Absent, i_ts |-> Absent]

\* an ordinary text message typed by a user
UserMessage ==
  [BlankEvent EXCEPT !.type = "message", !.user = "U1", !.channel = "C1",
                     !.ts = "100.1", !.text = "hi"]

\* a text message sent by a bot account, in another channel
BotMessage ==
  [BlankEvent EXCEPT !.type = "message", !.user = "UBOT", !.channel = "C2",
                     !.ts = "100.2", !.text = "beep"]

\* a bot's message that was edited: the sender is in the nested "message"
EditedBotMessage ==
  [BlankEvent EXCEPT !.type = "message", !.channel = "C2", !.ts = "100.3",
                     !.message = Dict, !.m_user = "USLACKBOT", !.m_text = "boop"]

\* a text message of a user the client's user list does not hold
StrangerMessage ==
  [BlankEvent EXCEPT !.type = "message", !.user = "UGONE", !.channel = "C2",
                     !.ts = "100.4", !.text = "hey"]

\* the server's reply to a sent message: {"ok": true, "reply_to": id, "ts": ..., "text": ...}
AckOk(id) ==
  [BlankEvent EXCEPT !.ok = "TRUE", !.reply_to = id,
                     !.ts = IF id = 1 THEN "200.1" ELSE "200.2", !.text = "hi"]

\* {"ok": false, "reply_to": id, "error": {...}}
AckError(id) == [BlankEvent EXCEPT !.ok = "FALSE", !.reply_to = id]

\* the events delivered while say_complete is in use: a user's message, both
\* replies to the first send and a reply to the second
Events == {UserMessage, AckOk(1), AckError(1), AckOk(2)}

\* what rtm_read() can return: any short list of events
SeqsUpTo(S, n) == UNION {[1..k -> S] : k \in 0..n}

IsStr(v) == v \notin {Absent, NonStr, "NONE"}

\* dict.get(key, default): the value when the key is present, else the default
Get(v, default) == IF v = Absent THEN default ELSE v

\* self.message_dict.get(nested, {}).get(key): the nested value's key; None
\* ("ABSENT") when the nested dict or the key is missing; AttributeError when
\* the nested value has no .get
Sub(nested, v) ==
  IF nested = NonDict THEN "AttributeError"
  ELSE IF nested = Absent THEN Absent
  ELSE v

Errors == {"ValueError", "AttributeError", "AssertionError"}

\* ------------------------------------------------- IncomingMessage accessors
\* Each returns the value, or the name of the exception the accessor raises.
Timestamp(m) ==
  LET reaction_timestamp == Sub(m.item, m.i_ts)
      timestamp == Get(m.ts, reaction_timestamp)
  IN IF reaction_timestamp = "AttributeError" THEN "AttributeError"
     ELSE IF ~IsStr(timestamp) THEN "ValueError" ELSE timestamp

Text(m) ==
  LET submessage_text == Sub(m.message, m.m_text)
      text == Get(m.text, submessage_text)
  IN IF submessage_text = "AttributeError" THEN "AttributeError"
     ELSE IF ~IsStr(text) THEN "ValueError" ELSE text

UserId(m) ==
  LET submessage_channel == Sub(m.message, m.m_user)
      user_id == Get(m.user, submessage_channel)
  IN IF submessage_channel = "AttributeError" THEN "AttributeError"
     ELSE IF ~IsStr(user_id) THEN "ValueError" ELSE user_id

ChannelId(m) ==
  LET reaction_channel == Sub(m.item, m.i_channel)
      submessage_channel ==
        IF m.message = NonDict THEN "AttributeError"
        ELSE IF m.message = Absent THEN reaction_channel
        ELSE Get(m.m_channel, reaction_channel)
      channel_id == Get(m.channel, submessage_channel)
  IN IF "AttributeError" \in {reaction_channel, submessage_channel} THEN "AttributeError"
     ELSE IF ~IsStr(channel_id) THEN "ValueError" ELSE channel_id

\* thread_id is optional: None ("NONE") when absent
ThreadId(m) ==
  LET submessage_thread == Sub(m.message, m.m_thread_ts)
      thread_id == Get(m.thread_ts, submessage_thread)
  IN IF submessage_thread = "AttributeError" THEN "AttributeError"
     ELSE IF thread_id \in {Absent, "NONE"} THEN "NONE"
     ELSE IF ~IsStr(thread_id) THEN "ValueError" ELSE thread_id

Reaction(m) ==
  LET reaction == m.reaction
  IN IF ~IsStr(reaction) THEN "ValueError" ELSE reaction

IsActionMessage(m) ==
  m.type \notin {"ping", "pong", "presence_change", "user_typing", "reconnect_url"}

\* self.client.server.users: the users get_user_name_by_id finds
KnownUsers == {"U1", "UBOT"}

\* the users whose users.info says is_bot, and Slackbot
BotUsers == {"USLACKBOT", "UBOT"}

\* (mutation: nobody is taken for a bot)
NobodyIsBot(user_id) == "false"

\* the user of the local debug session, for whom SlackDebugBot.get_user_is_bot
\* answers
DebugUsers == {"UMe"}

\* get_user_is_bot: "true", "false", or AssertionError when get_user_info_by_id
\* does not know the user; SlackDebugBot.get_user_is_bot: False
GetUserIsBot(user_id) ==
  IF user_id \in DebugUsers THEN "false"
  ELSE IF user_id = "USLACKBOT" THEN "true"
  ELSE IF user_id \notin KnownUsers THEN "AssertionError"
  ELSE IF user_id \in BotUsers THEN "true" ELSE "false"


\* ---------------------------------------------------------------- state
VARIABLES
  now,                            \* time.monotonic(), in ticks  
  pc,                             \* where the main thread is
  thread,                         \* where the second thread (console or input) is
  user_input_queue,               \* queue.Queue of SlackDebugBot.start
  plugins,                        \* Botty.plugins, in registration order
  max_message_id,                 \* SlackBot.max_message_id
  last_say_time,                  \* SlackBot.last_say_time
  unprocessed_incoming_messages,  \* SlackBot.unprocessed_incoming_messages
  last_ping,                      \* local last_ping of start()
  batch,                          \* messages the for loop of start() has still to visit
  ctx,                            \* "step" or "msg": which callback is being dispatched
  hidx,                           \* index in plugins of the plugin being called
  last_message_timestamp, last_message_thread_id, last_message_channel_id,
  recent_events,                  \* Botty.recent_events
  sc,                             \* the running say_complete call, or NoCall
  \* ---- observations of the run (written, never read, by the program)
  reads,                          \* every event returned by rtm_read(), in order
  dispatched,                     \* every event passed to on_message, in order
  sends,                          \* every frame given to send_to_websocket
  issued,                         \* every message id assigned by say, in order
  calls,                          \* plugin calls of the current event or step
  errors,                         \* logger.error records of the current event or step
  sc_done,                        \* outcome of the say_complete call of the current callback
  starts,                         \* number of times start() was entered
  timeouts,                       \* number of say_complete calls that timed out
  session,                        \* the session states gone through, with cause and time
  probe                           \* input and result of a function applied on its own

progVars == <<plugins, max_message_id, last_say_time, unprocessed_incoming_messages,
              last_ping, batch, ctx, hidx, last_message_timestamp,
              last_message_thread_id, last_message_channel_id, recent_events, sc>>
obsVars == <<reads, dispatched, sends, issued, calls, errors, sc_done, starts, timeouts,
             session, probe>>
vars == <<now, pc, thread, user_input_queue, progVars, obsVars>>

\* `first` is the number of events read before the call's send
NoCall == [active |-> FALSE, message_id |-> 0, start_time |-> 0, timeout |-> 0,
           first |-> 0]
NoResult == [message_id |-> 0, result |-> "none", first |-> 0, last |-> 0,
             elapsed |-> 0, timeout |-> 0]

PluginNames == 1..NumPlugins

NoProbe == [fn |-> "none"]

\* no second thread has been started
NoThread == [at |-> "none"]

\* queue.Queue(): the items and the number of unfinished tasks
NoInput == [items |-> <<>>, unfinished |-> 0]

\* the session log with one more state: the state, what led to it, and when
Log(state, why, at) == Append(session, [state |-> state, why |-> why, at |-> at])

\* the state after Botty(token) and n register_plugin calls; the monotonic clock
\* is past its first second
Built(n) ==
  /\ now = TicksPerSecond
  /\ plugins = [i \in 1..n |-> i]
  /\ max_message_id = FirstMessageId
  /\ last_say_time = InitialSayTime
  /\ unprocessed_incoming_messages = <<>>
  /\ last_ping = 0
  /\ batch = <<>>
  /\ ctx = "step"
  /\ hidx = 0
  /\ last_message_timestamp = "NONE"
  /\ last_message_thread_id = "NONE"
  /\ last_message_channel_id = "NONE"
  /\ recent_events = <<>>
  /\ sc = NoCall
  /\ reads = <<>>
  /\ dispatched = <<>>
  /\ sends = <<>>
  /\ issued = <<>>
  /\ calls = <<>>
  /\ errors = 0
  /\ sc_done = NoResult
  /\ starts = 0
  /\ timeouts = 0
  /\ session = <<[state |-> "Disconnected", why |-> "init", at |-> TicksPerSecond]>>
  /\ thread = NoThread
  /\ user_input_queue = NoInput

\* the same, before start_loop is called
Constructed(n) == Built(n) /\ pc = "init" /\ probe = NoProbe

\* ----------------------------------------------------------------- clock
\* A tick passes while the thread is at one of `places`.
TimePasses(places, limit) ==
  /\ pc \in places
  /\ now < limit
  /\ now' = now + 1
  /\ UNCHANGED <<pc, thread, user_input_queue, progVars, obsVars>>

\* --------------------------------------------------- start_loop and start
\* botty.start_loop() is called: the first self.start() begins
StartLoop ==
  /\ pc = "init"
  /\ pc' = "connect"
  /\ session' = Log("Connecting", "start_loop", now)
  /\ UNCHANGED <<now, progVars, reads, dispatched, sends, issued, calls, errors,
                 sc_done, starts, timeouts, probe, thread, user_input_queue>>

ConnectOutcomes == {"ok", "connect_error", "auth_error"}

\* start(): rtm_connect, auth.test, last_ping = time.monotonic().
\* "connect_error": rtm_connect() is falsy, ConnectionError is raised;
\* "auth_error": `assert authentication["ok"]` fails, AssertionError is raised.
\* Both are Exceptions and leave start() for the except clause of start_loop.
Connect(outcome) ==
  /\ pc = "connect"
  /\ starts' = starts + 1
  /\ IF outcome = "ok"
     THEN /\ pc' = "tick"
          /\ last_ping' = now
          /\ session' = Log("Connected", "ok", now)
     ELSE /\ pc' = "restart"
          /\ session' = Log("Failed", outcome, now)
          /\ UNCHANGED last_ping
  /\ UNCHANGED <<now, plugins, max_message_id, last_say_time,
                 unprocessed_incoming_messages, batch, ctx, hidx,
                 last_message_timestamp, last_message_thread_id,
                 last_message_channel_id, recent_events, sc,
                 reads, dispatched, sends, issued, calls, errors, sc_done, timeouts,
                 probe, thread, user_input_queue>>

\* start_loop: except Exception: log, time.sleep(5), call start() again
Restart(oversleep) ==
  /\ pc = "restart"
  /\ now + RestartDelay + oversleep <= MaxTime
  /\ now' = now + RestartDelay + oversleep
  /\ pc' = "connect"
  /\ session' = Log("Connecting", "backoff", now')
  /\ UNCHANGED <<progVars, reads, dispatched, sends, issued, calls, errors,
                 sc_done, starts, timeouts, probe, thread, user_input_queue>>

\* (mutation: the interrupt is handled like any other exception)
StopCaughtAsFailure ==
  /\ pc \notin {"init", "stopped"}
  /\ pc' = "restart"
  /\ session' = Log("Disconnected", "stop", now)
  /\ UNCHANGED <<now, progVars, reads, dispatched, sends, issued, calls, errors,
                 sc_done, starts, timeouts, probe, thread, user_input_queue>>

\* KeyboardInterrupt is raised in the main thread, wherever it is.  Inside
\* start() it is no Exception, so no `except Exception` clause stops it (the
\* one around on_message re-raises it) and `except KeyboardInterrupt: break`
\* of start_loop ends the loop; during the time.sleep(5) of the handler of
\* start_loop it leaves start_loop itself.  A callback that was running is
\* abandoned (its call stays "running") and the rest of the batch is not visited.
Stop ==
  /\ pc \notin {"init", "stopped"}
  /\ pc' = "stopped"
  /\ session' = Log("Disconnected", "stop", now)
  /\ UNCHANGED <<now, progVars, reads, dispatched, sends, issued, calls, errors,
                 sc_done, starts, timeouts, probe, thread, user_input_queue>>


\* ------------------------------------------------------ plugin dispatching
\* (mutation: the loop never breaks)
HandledNever(result) == FALSE

\* `if plugin.on_step(): break` / `if plugin.on_message(message): ... break`
Handled(result) == result = "true"

\* where an exception raised inside on_step / on_message lands: the try/except
\* around self.on_step() resp. self.on_message(message_dict) in start()
AfterCallback(callback) == IF callback = "step" THEN "pull" ELSE "dispatch"

Invocation(i) == [plugin |-> plugins[i], result |-> "running"]

\* the plugin being called returns "true" / "false" or raises ("raise")
PluginExit(result) ==
  LET closed == [calls EXCEPT ![Len(calls)].result = result]
  IN IF result = "raise"
     THEN /\ calls' = closed
          /\ errors' = errors + 1
          /\ pc' = AfterCallback(ctx)
          /\ hidx' = 0
     ELSE IF Handled(result) \/ hidx >= Len(plugins)
     THEN /\ calls' = closed
          /\ errors' = errors
          /\ pc' = AfterCallback(ctx)
          /\ hidx' = 0
     ELSE /\ calls' = Append(closed, Invocation(hidx + 1))
          /\ errors' = errors
          /\ pc' = "handler"
          /\ hidx' = hidx + 1

\* top of the while loop of start(): self.on_step()
OnStep ==
  /\ pc = "tick"
  /\ ctx' = "step"
  /\ errors' = 0
  /\ IF Len(plugins) = 0
     THEN pc' = "pull" /\ hidx' = 0 /\ calls' = <<>>
     ELSE pc' = "handler" /\ hidx' = 1 /\ calls' = <<Invocation(1)>>
  /\ sc_done' = NoResult
  /\ UNCHANGED <<now, plugins, max_message_id, last_say_time,
                 unprocessed_incoming_messages, last_ping, batch,
                 last_message_timestamp, last_message_thread_id,
                 last_message_channel_id, recent_events, sc,
                 reads, dispatched, sends, issued, starts, timeouts, session, probe, thread, user_input_queue>>

PluginReturn(handled) ==
  /\ pc = "handler"
  /\ PluginExit(IF handled THEN "true" ELSE "false")
  /\ UNCHANGED <<now, plugins, max_message_id, last_say_time,
                 unprocessed_incoming_messages, last_ping, batch, ctx,
                 last_message_timestamp, last_message_thread_id,
                 last_message_channel_id, recent_events, sc,
                 reads, dispatched, sends, issued, sc_done, starts, timeouts, session, probe, thread, user_input_queue>>

PluginRaise ==
  /\ pc = "handler"
  /\ PluginExit("raise")
  /\ UNCHANGED <<now, plugins, max_message_id, last_say_time,
                 unprocessed_incoming_messages, last_ping, batch, ctx,
                 last_message_timestamp, last_message_thread_id,
                 last_message_channel_id, recent_events, sc,
                 reads, dispatched, sends, issued, sc_done, starts, timeouts, session, probe, thread, user_input_queue>>

\* ------------------------------------------------------- reading events
\* the lists rtm_read() may return: events of S, keeping the total read within n
Batches(S, n) == {b \in SeqsUpTo(S, MaxBatch) : Len(reads) + Len(b) <= n}

\* (mutation: peeked messages are not kept for the dispatcher)
ExtendNothing(queue, new_messages) == queue

\* self.unprocessed_incoming_messages.extend(new_messages)
Extend(queue, new_messages) == queue \o new_messages

\* retrieve_unprocessed_incoming_messages(), at the head of the for loop
Pull(ok, new) ==
  /\ pc = "pull"
  /\ IF ok
     THEN /\ batch' = unprocessed_incoming_messages \o new
          /\ unprocessed_incoming_messages' = <<>>
          /\ reads' = reads \o new
          /\ pc' = "dispatch"
     ELSE /\ new = <<>>          \* rtm_read() raises: start() ends, start_loop restarts
          /\ pc' = "restart"
          /\ UNCHANGED <<batch, unprocessed_incoming_messages, reads>>
  /\ session' = IF ok THEN session ELSE Log("Failed", "read_error", now)
  /\ UNCHANGED <<now, plugins, max_message_id, last_say_time, last_ping, ctx, hidx,
                 last_message_timestamp, last_message_thread_id,
                 last_message_channel_id, recent_events, sc,
                 dispatched, sends, issued, calls, errors, sc_done, starts, timeouts,
                 probe, thread, user_input_queue>>

\* deque(maxlen=...).append
DequeAppend(q, x) ==
  IF Len(q) < RecentEventsMax THEN Append(q, x) ELSE Append(Tail(q), x)

\* (mutation: the three variables are assigned one after the other, each as
\* soon as its accessor has answered)
AssignedOneByOne(old, timestamp, thread_id, channel_id) ==
  IF timestamp \in Errors THEN old
  ELSE IF thread_id \in Errors THEN <<timestamp, old[2], old[3]>>
  ELSE IF channel_id \in Errors THEN <<timestamp, thread_id, old[3]>>
  ELSE <<timestamp, thread_id, channel_id>>

\* `self.last_message_timestamp, self.last_message_thread_id,
\*  self.last_message_channel_id = message.timestamp, message.thread_id,
\*  message.channel_id`: the right-hand tuple is built first, so an accessor
\* that raises leaves before anything is assigned
LastMessage(old, timestamp, thread_id, channel_id) ==
  IF {timestamp, thread_id, channel_id} \cap Errors # {} THEN old
  ELSE <<timestamp, thread_id, channel_id>>

\* Botty.on_message up to the plugin loop, for the next message of the batch
OnMessage ==
  /\ pc = "dispatch"
  /\ batch # <<>>
  /\ LET message_dict == Head(batch)
         user_id == LET submessage_user == Sub(message_dict.message, message_dict.m_user)
                    IN IF submessage_user = "AttributeError" THEN "AttributeError"
                       ELSE Get(message_dict.user, submessage_user)
         ts == Timestamp(message_dict)
         th == ThreadId(message_dict)
         ch == ChannelId(message_dict)
         is_bot == IF user_id \in Errors THEN user_id
                   ELSE IF IsStr(user_id) THEN GetUserIsBot(user_id) ELSE "false"
         old == <<last_message_timestamp, last_message_thread_id,
                  last_message_channel_id>>
         last_message == IF is_bot \in Errors THEN old ELSE LastMessage(old, ts, th, ch)
     IN /\ batch' = Tail(batch)
        /\ dispatched' = Append(dispatched, message_dict)
        /\ ctx' = "msg"
        /\ sc_done' = NoResult
        /\ IF is_bot = "true"
           THEN /\ pc' = "dispatch" /\ hidx' = 0 /\ calls' = <<>> /\ errors' = 0
                /\ UNCHANGED <<last_message_timestamp, last_message_thread_id,
                               last_message_channel_id, recent_events>>
           ELSE IF is_bot \in Errors \/ {ts, th, ch} \cap Errors # {}
           THEN \* the exception leaves on_message; start() logs it
                /\ pc' = "dispatch" /\ hidx' = 0 /\ calls' = <<>> /\ errors' = 1
                /\ last_message_timestamp' = last_message[1]
                /\ last_message_thread_id' = last_message[2]
                /\ last_message_channel_id' = last_message[3]
                /\ UNCHANGED recent_events
           ELSE /\ last_message_timestamp' = last_message[1]
                /\ last_message_thread_id' = last_message[2]
                /\ last_message_channel_id' = last_message[3]
                /\ recent_events' = IF IsActionMessage(message_dict)
                                    THEN DequeAppend(recent_events, message_dict)
                                    ELSE recent_events
                /\ errors' = 0
                /\ IF Len(plugins) = 0
                   THEN pc' = "dispatch" /\ hidx' = 0 /\ calls' = <<>>
                   ELSE pc' = "handler" /\ hidx' = 1 /\ calls' = <<Invocation(1)>>
  /\ UNCHANGED <<now, plugins, max_message_id, last_say_time,
                 unprocessed_incoming_messages, last_ping, sc,
                 reads, sends, issued, starts, timeouts, session, probe, thread, user_input_queue>>

\* (mutation: the probe is never due)
PingNeverDue(current_time, last) == FALSE

\* `time.monotonic() - last_ping > 5`
PingDue(current_time, last) == current_time - last > PingInterval

\* end of the loop body: ping when due, then time.sleep(0.01)
EndTick(ping_ok) ==
  /\ pc = "dispatch"
  /\ batch = <<>>
  /\ IF PingDue(now, last_ping)
     THEN IF ping_ok
          THEN pc' = "tick" /\ last_ping' = now /\ UNCHANGED session
          ELSE /\ pc' = "restart"             \* ping() raises
               /\ session' = Log("Failed", "ping_error", now)
               /\ UNCHANGED last_ping
     ELSE ping_ok /\ pc' = "tick" /\ UNCHANGED <<last_ping, session>>
  /\ UNCHANGED <<now, plugins, max_message_id, last_say_time,
                 unprocessed_incoming_messages, batch, ctx, hidx,
                 last_message_timestamp, last_message_thread_id,
                 last_message_channel_id, recent_events, sc,
                 reads, dispatched, sends, issued, calls, errors, sc_done, starts,
                 timeouts, probe, thread, user_input_queue>>


\* -------------------------------------------------------------------- say
\* time.sleep(max(0, 1 - (current_time - self.last_say_time)))
SleepDuration(current_time, last) == Max(0, SayInterval - (current_time - last))

\* self.last_say_time after the rate-limiting block of say()
NextSayTime(current_time, last) ==
  IF current_time - last < SayInterval THEN last + SayInterval ELSE current_time

\* (mutation: the id is not advanced)
SameMessageId(id) == id

\* self.max_message_id += 1
NextMessageId(id) == id + 1

\* the time at which say() goes on after its rate-limiting block: time.sleep
\* returns `oversleep` ticks later than asked
WakeTime(current_time, last, oversleep) ==
  IF current_time - last < SayInterval
  THEN current_time + SleepDuration(current_time, last) + oversleep
  ELSE current_time

\* say().  outcome: "sent", "invalid_channel" (the first assertion fails) or
\* "socket_error" (send_to_websocket raises).
Say(outcome, oversleep, channel_id, thread_id) ==
  IF outcome = "invalid_channel"
  THEN /\ oversleep = 0
       /\ UNCHANGED <<now, last_say_time, max_message_id, sends, issued>>
  ELSE LET wake == WakeTime(now, last_say_time, oversleep) IN
       /\ now - last_say_time >= SayInterval => oversleep = 0
       /\ wake <= MaxTime
       /\ now' = wake
       /\ last_say_time' = NextSayTime(now, last_say_time)
       /\ max_message_id' = NextMessageId(max_message_id)
       /\ issued' = Append(issued, [id |-> max_message_id, start |-> starts])
       /\ sends' = IF outcome = "sent"
                   THEN Append(sends, [id |-> max_message_id, called |-> now,
                                       at |-> wake, channel |-> channel_id,
                                       thread_ts |-> thread_id])
                   ELSE sends

SayOutcomes == {"sent", "invalid_channel", "socket_error"}

\* a plugin's callback calls say(..., channel_id=..., thread_id=...)
SayCall(outcome, oversleep, channel_id, thread_id) ==
  /\ pc = "handler"
  /\ Say(outcome, oversleep, channel_id, thread_id)
  /\ IF outcome = "sent"
     THEN UNCHANGED <<pc, hidx, calls, errors>>
     ELSE PluginExit("raise")       \* the exception leaves the plugin
  /\ UNCHANGED <<plugins, unprocessed_incoming_messages, last_ping, batch, ctx,
                 last_message_timestamp, last_message_thread_id,
                 last_message_channel_id, recent_events, sc,
                 reads, dispatched, sc_done, starts, timeouts, session, probe, thread, user_input_queue>>

\* a plugin calls self.bot.say(...) from on_step or on_message
PluginSay(outcome, oversleep) == SayCall(outcome, oversleep, "C1", "NONE")

\* ----------------------------------------------------------- say_complete
\* (mutation: any reply is taken for the awaited one)
IsAnyReply(message_dict, message_id) == message_dict.ok # Absent

\* `"ok" in message_dict and message_dict.get("reply_to") == message_id`
IsReplyTo(message_dict, message_id) ==
  message_dict.ok # Absent /\ message_dict.reply_to = message_id

\* (mutation: only the first message of a batch is looked at)
FirstReplyAtHead(msgs, message_id) ==
  IF msgs # <<>> /\ IsReplyTo(msgs[1], message_id) THEN 1 ELSE 0

\* index of the first reply to message_id in the list, 0 when there is none
FirstReply(msgs, message_id) ==
  IF \E i \in 1..Len(msgs) : IsReplyTo(msgs[i], message_id)
  THEN CHOOSE i \in 1..Len(msgs) :
         /\ IsReplyTo(msgs[i], message_id)
         /\ \A j \in 1..(i - 1) : ~IsReplyTo(msgs[j], message_id)
  ELSE 0

\* (mutation: the reply's "ok" is not looked at)
ReplyOutcomeIgnoringOk(message_dict) ==
  IF ~IsStr(message_dict.ts) THEN "AssertionError" ELSE message_dict.ts

\* what the for loop over one peeked batch does with the reply it finds
ReplyOutcome(message_dict) ==
  IF message_dict.ok # "TRUE" THEN "ValueError"
  ELSE IF ~IsStr(message_dict.ts) THEN "AssertionError"
  ELSE message_dict.ts

\* the while condition of say_complete
StillWaiting(current_time, start_time, timeout) == current_time - start_time < timeout

\* the timeouts say_complete is called with, in ticks
Timeouts == {1, 2}

\* a plugin's callback calls say_complete(..., channel_id=..., thread_id=...):
\* say(), then start waiting
SayCompleteCall(timeout, oversleep, channel_id, thread_id) ==
  /\ pc = "handler"
  /\ Say("sent", oversleep, channel_id, thread_id)
  /\ sc' = [active |-> TRUE, message_id |-> max_message_id, start_time |-> now',
            timeout |-> timeout, first |-> Len(reads)]
  /\ pc' = "say_complete"
  /\ UNCHANGED <<plugins, unprocessed_incoming_messages, last_ping, batch, ctx, hidx,
                 last_message_timestamp, last_message_thread_id,
                 last_message_channel_id, recent_events,
                 reads, dispatched, calls, errors, sc_done, starts, timeouts, session, probe, thread, user_input_queue>>

\* a plugin calls self.bot.say_complete(...)
PluginSayComplete(timeout, oversleep) ==
  SayCompleteCall(timeout, oversleep, "C1", "NONE")

Finished(result, nread) ==
  [message_id |-> sc.message_id, result |-> result, first |-> sc.first,
   last |-> nread, elapsed |-> now - sc.start_time, timeout |-> sc.timeout]

\* one turn of the while loop of say_complete: peek_new_messages() and scan
SayCompletePoll(new) ==
  /\ pc = "say_complete"
  /\ StillWaiting(now, sc.start_time, sc.timeout)
  /\ unprocessed_incoming_messages' = Extend(unprocessed_incoming_messages, new)
  /\ reads' = reads \o new
  /\ LET i == FirstReply(new, sc.message_id)
     IN IF i = 0
        THEN \* no reply in this batch: time.sleep(0.01) and loop
             /\ UNCHANGED <<pc, hidx, calls, errors, sc, sc_done>>
        ELSE /\ sc' = NoCall
             /\ sc_done' = Finished(ReplyOutcome(new[i]), Len(reads'))
             /\ IF ReplyOutcome(new[i]) \in {"ValueError", "AssertionError"}
                THEN PluginExit("raise")
                ELSE UNCHANGED <<hidx, calls, errors>> /\ pc' = "handler"
  /\ UNCHANGED <<now, plugins, max_message_id, last_say_time, last_ping, batch, ctx,
                 last_message_timestamp, last_message_thread_id,
                 last_message_channel_id, recent_events, dispatched, sends, issued,
                 starts, timeouts, session, probe, thread, user_input_queue>>

\* the while condition fails with no reply found: raise TimeoutError
SayCompleteTimeout ==
  /\ pc = "say_complete"
  /\ ~StillWaiting(now, sc.start_time, sc.timeout)
  /\ sc' = NoCall
  /\ sc_done' = Finished("TimeoutError", Len(reads))
  /\ timeouts' = timeouts + 1
  /\ PluginExit("raise")
  /\ UNCHANGED <<now, plugins, max_message_id, last_say_time,
                 unprocessed_incoming_messages, last_ping, batch, ctx,
                 last_message_timestamp, last_message_thread_id,
                 last_message_channel_id, recent_events,
                 reads, dispatched, sends, issued, starts, session, probe, thread, user_input_queue>>

\* -------------------------------------------------------- specifications
\* a further say() may be called while fewer than n ids were assigned
CanSay(n) == Len(issued) < n

\* Spec: the dispatch loop with NumPlugins plugins whose callbacks return or
\* raise, fed by the transport's events.
DispatchEvents ==
  {UserMessage, BotMessage, EditedBotMessage, StrangerMessage, AckOk(1)}

Init == Constructed(NumPlugins)

Next ==
  \/ StartLoop
  \/ \E outcome \in {"ok", "connect_error"} : Connect(outcome)
  \/ Restart(0)
  \/ OnStep
  \/ \E handled \in BOOLEAN : PluginReturn(handled)
  \/ PluginRaise
  \/ \E ok \in BOOLEAN, new \in Batches(DispatchEvents, MaxReads) : Pull(ok, new)
  \/ OnMessage
  \/ \E ping_ok \in BOOLEAN : EndTick(ping_ok)

Spec == Init /\ [][Next]_vars

\* SpecAck: one plugin that calls say_complete from its callbacks while the
\* transport delivers messages and replies; time passes while say_complete waits.
InitAck == Constructed(1)

NextAck ==
  \/ StartLoop
  \/ Connect("ok")
  \/ OnStep
  \/ PluginReturn(FALSE)
  \/ \E timeout \in Timeouts : CanSay(MaxSends) /\ PluginSayComplete(timeout, 0)
  \/ TimePasses({"say_complete"}, sc.start_time + sc.timeout)
  \/ \E new \in Batches(Events, MaxReads) : SayCompletePoll(new)
  \/ SayCompleteTimeout
  \/ \E new \in Batches(Events, MaxReads) : Pull(TRUE, new)
  \/ OnMessage
  \/ EndTick(TRUE)

SpecAck == InitAck /\ [][NextAck]_vars

\* SpecIds: one plugin that calls say and say_complete; sends fail, calls time
\* out, the connection drops and start_loop restarts the session.
IdEvents == {AckOk(1)}

NextIds ==
  \/ StartLoop
  \/ \E outcome \in ConnectOutcomes : Connect(outcome)
  \/ Restart(0)
  \/ OnStep
  \/ \E handled \in BOOLEAN : PluginReturn(handled)
  \/ \E outcome \in SayOutcomes : CanSay(MaxSaySends) /\ PluginSay(outcome, 0)
  \/ \E timeout \in Timeouts : CanSay(MaxSaySends) /\ PluginSayComplete(timeout, 0)
  \/ TimePasses({"say_complete"}, sc.start_time + sc.timeout)
  \/ \E new \in Batches(IdEvents, MaxIdReads) : SayCompletePoll(new)
  \/ SayCompleteTimeout
  \/ \E ok \in BOOLEAN, new \in Batches(IdEvents, MaxIdReads) : Pull(ok, new)
  \/ OnMessage
  \/ \E ping_ok \in BOOLEAN : EndTick(ping_ok)

SpecIds == InitAck /\ [][NextIds]_vars

\* SpecSay: one plugin that calls say at arbitrary times; a sleep may last
\* longer than asked; the transport is silent.
NextSay ==
  \/ StartLoop
  \/ Connect("ok")
  \/ OnStep
  \/ \E handled \in BOOLEAN : PluginReturn(handled)
  \/ \E oversleep \in 0..MaxOversleep : CanSay(MaxSaySends) /\ PluginSay("sent", oversleep)
  \/ TimePasses({"tick", "handler"}, MaxSayTime)
  \/ Pull(TRUE, <<>>)
  \/ EndTick(TRUE)

SpecSay == InitAck /\ [][NextSay]_vars

\* SpecSession: the life of the session.  Connecting fails or succeeds, the
\* transport or the probe fails, start_loop backs off and reconnects, a plugin
\* takes its time, and the stop signal arrives at any moment.
SessionEvents == {UserMessage}

NextSession ==
  \/ StartLoop
  \/ \E outcome \in ConnectOutcomes : Connect(outcome)
  \/ Restart(0)
  \/ Stop
  \/ OnStep
  \/ PluginReturn(FALSE)
  \/ TimePasses({"handler"}, MaxTime)
  \/ \E ok \in BOOLEAN, new \in Batches(SessionEvents, MaxReads) : Pull(ok, new)
  \/ OnMessage
  \/ \E ping_ok \in BOOLEAN : EndTick(ping_ok)

SpecSession == InitAck /\ [][NextSession]_vars

\* SpecAccess: the IncomingMessage accessors, each applied to every raw record
\* that differs at the places the accessor looks at.
Accessors == {"timestamp", "text", "user_id", "channel_id", "thread_id", "reaction"}

\* what a key can hold: nothing, None, a value that is no string, a string
Held(string) == {Absent, "NONE", NonStr, string}

\* what a nested value and one key of it can be
Nested(string) ==
  {<<Absent, Absent>>, <<NonDict, Absent>>} \cup {<<Dict, v>> : v \in Held(string)}

\* the record with `top` at the accessor's top-level key and `sub`, `itm` at
\* its key of the nested "message" and "item"
RawRecord(fn, top, sub, itm) ==
  LET base == [BlankEvent EXCEPT !.message = sub[1], !.item = itm[1]]
  IN CASE fn = "timestamp" -> [base EXCEPT !.ts = top, !.i_ts = itm[2]]
       [] fn = "text" -> [base EXCEPT !.text = top, !.m_text = sub[2]]
       [] fn = "user_id" -> [base EXCEPT !.user = top, !.m_user = sub[2]]
       [] fn = "channel_id" ->
            [base EXCEPT !.channel = top, !.m_channel = sub[2], !.i_channel = itm[2]]
       [] fn = "thread_id" -> [base EXCEPT !.thread_ts = top, !.m_thread_ts = sub[2]]
       [] fn = "reaction" -> [base EXCEPT !.reaction = top]

RawRecords(fn) ==
  {RawRecord(fn, top, sub, itm) :
     top \in Held("top"), sub \in Nested("sub"), itm \in Nested("item")}

\* message.<fn> for message = IncomingMessage(message_dict)
Access(fn, message_dict) ==
  CASE fn = "timestamp" -> Timestamp(message_dict)
    [] fn = "text" -> Text(message_dict)
    [] fn = "user_id" -> UserId(message_dict)
    [] fn = "channel_id" -> ChannelId(message_dict)
    [] fn = "thread_id" -> ThreadId(message_dict)
    [] fn = "reaction" -> Reaction(message_dict)

InitAccess ==
  /\ Built(1)
  /\ pc = "probe"
  /\ \E fn \in Accessors : \E r \in RawRecords(fn) :
       probe = [fn |-> fn, in |-> r, out |-> "none"]

ApplyAccessor ==
  /\ pc = "probe"
  /\ probe.fn \in Accessors
  /\ probe.out = "none"
  /\ probe' = [probe EXCEPT !.out = Access(probe.fn, probe.in)]
  /\ UNCHANGED <<now, pc, progVars, reads, dispatched, sends, issued, calls, errors,
                 sc_done, starts, timeouts, session, thread, user_input_queue>>

NextAccess == ApplyAccessor

SpecAccess == InitAccess /\ [][NextAccess]_vars

\* SpecDirectory: the identity lookups, each applied MaxLookups times to one key
\* with every content of the local lists and of the workspace directory.
MaxLookups == 2

ChannelIds == {"C1", "C2"}

\* entry.name of a channel, entry.name and entry.real_name of a user
ChannelName == [c \in ChannelIds |-> IF c = "C1" THEN "general" ELSE "random"]

UserName == [u \in KnownUsers |-> IF u = "U1" THEN "alice" ELSE "botty"]

RealName == [u \in KnownUsers |-> IF u = "U1" THEN "Alice A" ELSE "Botty B"]

None == "NONE"

\* a name as a caller writes it: the name itself, with blanks around it, with
\* the "#" or "@" in front, or a reference "<#ID>" / "<@ID>"
NameForms == {"plain", "padded", "prefixed", "reference"}

\* channel_name.strip().lstrip("#") and user_name.strip().lstrip("@")
StripName(key) ==
  IF key.form \in {"padded", "prefixed"} THEN [key EXCEPT !.form = "plain"] ELSE key

\* what one lookup gives: its return value, the local list afterwards and the
\* number of directory queries it issued
Looked(out, cache, queries) == [out |-> out, cache |-> cache, queries |-> queries]

\* the id of the entry of `entries` with the given name (names are unique)
IdNamed(entries, names, name) ==
  IF \E e \in entries : names[e] = name
  THEN CHOOSE e \in entries : names[e] = name
  ELSE None

GetChannelNameById(channels, channel_id) ==
  IF channel_id \in channels THEN ChannelName[channel_id] ELSE None

GetChannelIdByName(channels, channel_name) ==
  LET name == StripName(channel_name)
  IN IF name.form = "reference" THEN name.value
     ELSE IF name.form = "plain" THEN IdNamed(channels, ChannelName, name.value)
     ELSE None

GetUserNameById(users, user_id) ==
  IF user_id \in users THEN UserName[user_id] ELSE None

GetUserIdByName(users, user_name) ==
  LET name == StripName(user_name)
  IN IF name.form = "reference" THEN name.value
     ELSE IF name.form = "plain" /\ IdNamed(users, UserName, name.value) # None
     THEN IdNamed(users, UserName, name.value)
     ELSE IF name.form \in {"plain", "real"}
     THEN IdNamed(users, RealName, name.value)
     ELSE None

\* the script's get_channel and get_user: channel_id_map / user_id_map first,
\* else one channels.info / users.info call whose answer is stored
ScriptGetById(id_map, names, directory, id) ==
  IF id \in id_map THEN Looked(names[id], id_map, 0)
  ELSE IF id \in directory THEN Looked(names[id], id_map \cup {id}, 1)
  ELSE Looked("KeyError", id_map, 1)

\* the script's get_channel_id_by_name: channel_id_map.values() first, else one
\* channels.list call
ScriptGetChannelIdByName(id_map, directory, channel_name) ==
  LET name == IF channel_name.form = "plain" THEN channel_name.value ELSE None
  IN IF IdNamed(id_map, ChannelName, name) # None
     THEN Looked(IdNamed(id_map, ChannelName, name), id_map, 0)
     ELSE IF IdNamed(directory, ChannelName, name) # None
     THEN Looked(IdNamed(directory, ChannelName, name),
                 id_map \cup {IdNamed(directory, ChannelName, name)}, 1)
     ELSE Looked(None, id_map, 1)

Lookups ==
  {"get_channel_name_by_id", "get_channel_id_by_name", "get_user_name_by_id",
   "get_user_id_by_name", "get_channel", "script_get_channel_id_by_name", "get_user"}

OverUsers(fn) == fn \in {"get_user_name_by_id", "get_user_id_by_name", "get_user"}

ByName(fn) ==
  fn \in {"get_channel_id_by_name", "get_user_id_by_name", "script_get_channel_id_by_name"}

\* the ids the directory of fn can hold
Universe(fn) == IF OverUsers(fn) THEN KnownUsers ELSE ChannelIds

\* the keys fn is looked up with
Keys(fn) ==
  IF ~ByName(fn) THEN Universe(fn)
  ELSE {[form |-> f, value |-> IF OverUsers(fn) THEN UserName[e] ELSE ChannelName[e]] :
          f \in NameForms \ {"reference"}, e \in Universe(fn)}
       \cup {[form |-> "reference", value |-> e] : e \in Universe(fn)}
       \cup (IF fn = "get_user_id_by_name"
             THEN {[form |-> "real", value |-> RealName[e]] : e \in KnownUsers}
             ELSE {})

Lookup(fn, cache, directory, key) ==
  CASE fn = "get_channel_name_by_id" -> Looked(GetChannelNameById(cache, key), cache, 0)
    [] fn = "get_channel_id_by_name" -> Looked(GetChannelIdByName(cache, key), cache, 0)
    [] fn = "get_user_name_by_id" -> Looked(GetUserNameById(cache, key), cache, 0)
    [] fn = "get_user_id_by_name" -> Looked(GetUserIdByName(cache, key), cache, 0)
    [] fn = "get_channel" -> ScriptGetById(cache, ChannelName, directory, key)
    [] fn = "script_get_channel_id_by_name" ->
         ScriptGetChannelIdByName(cache, directory, key)
    [] fn = "get_user" -> ScriptGetById(cache, UserName, directory, key)

InitDirectory ==
  /\ Built(1)
  /\ pc = "probe"
  /\ \E fn \in Lookups : \E key \in Keys(fn) :
     \E directory \in SUBSET Universe(fn) : \E cache \in SUBSET directory :
       probe = [fn |-> fn, key |-> key, directory |-> directory, cold |-> cache,
                cache |-> cache, queries |-> 0, outs |-> <<>>]

LookUp ==
  /\ pc = "probe"
  /\ probe.fn \in Lookups
  /\ Len(probe.outs) < MaxLookups
  /\ LET r == Lookup(probe.fn, probe.cache, probe.directory, probe.key)
     IN probe' = [probe EXCEPT !.cache = r.cache, !.queries = @ + r.queries,
                               !.outs = Append(@, r.out)]
  /\ UNCHANGED <<now, pc, progVars, reads, dispatched, sends, issued, calls, errors,
                 sc_done, starts, timeouts, session, thread, user_input_queue>>

NextDirectory == LookUp

SpecDirectory == InitDirectory /\ [][NextDirectory]_vars

\* SpecText: the text conversions.  A text is the sequence of its characters;
\* every text of at most MaxTextLen characters of Alphabet is encoded and
\* decoded again, or decoded as it stands.
MaxTextLen == 3

\* a letter, a blank and the three characters Slack reserves.  No body of a
\* special sequence over this alphabet starts with "#", "@" or "!"
Alphabet == {"a", " ", "&", "<", ">"}

Texts == SeqsUpTo(Alphabet, MaxTextLen)

Amp == <<"&", "a", "m", "p", ";">>

Lt == <<"&", "l", "t", ";">>

Gt == <<"&", "g", "t", ";">>

\* the failed assert of sendable_text_to_text, told from every text
InvalidSpecialSequence == <<"AssertionError">>

StartsWith(text, prefix) ==
  Len(prefix) <= Len(text) /\ SubSeq(text, 1, Len(prefix)) = prefix

\* text.replace(old, new): every occurrence, left to right, without overlap
RECURSIVE Replace(_, _, _)
Replace(text, old, new) ==
  IF text = <<>> THEN <<>>
  ELSE IF StartsWith(text, old)
  THEN new \o Replace(SubSeq(text, Len(old) + 1, Len(text)), old, new)
  ELSE <<Head(text)>> \o Replace(Tail(text), old, new)

\* (mutation: text.strip(), the blanks at both ends are dropped)
RECURSIVE TextStripped(_)
TextStripped(text) ==
  IF text = <<>> THEN <<>>
  ELSE IF Head(text) = " " THEN TextStripped(Tail(text))
  ELSE IF text[Len(text)] = " " THEN TextStripped(SubSeq(text, 1, Len(text) - 1))
  ELSE text

TextToSendableText(text) ==
  Replace(Replace(Replace(text, <<"&">>, Amp), <<"<">>, Lt), <<">">>, Gt)

\* the position of the first character of `text` after the first one that is in
\* `stops`, 0 when there is none
FirstOf(text, stops) ==
  IF \E i \in 2..Len(text) : text[i] \in stops
  THEN CHOOSE i \in 2..Len(text) :
         text[i] \in stops /\ \A j \in 2..(i - 1) : text[j] \notin stops
  ELSE 0

\* re.sub(r"<[^<>]*>", "", sendable_text)
RECURSIVE WithoutSpecialSequences(_)
WithoutSpecialSequences(text) ==
  IF text = <<>> THEN <<>>
  ELSE LET close == FirstOf(text, {"<", ">"})
       IN IF Head(text) = "<" /\ close # 0 /\ text[close] = ">"
          THEN WithoutSpecialSequences(SubSeq(text, close + 1, Len(text)))
          ELSE <<Head(text)>> \o WithoutSpecialSequences(Tail(text))

\* process_special_sequence of sendable_text_to_text for a body that is no
\* channel reference, user reference or special command: `return original`
ProcessSpecialSequence(original) == original

\* re.sub(r"<(.*?)>", process_special_sequence, sendable_text)
RECURSIVE SpecialSequencesProcessed(_)
SpecialSequencesProcessed(text) ==
  IF text = <<>> THEN <<>>
  ELSE LET close == FirstOf(text, {">"})
       IN IF Head(text) = "<" /\ close # 0
          THEN ProcessSpecialSequence(SubSeq(text, 1, close))
                 \o SpecialSequencesProcessed(SubSeq(text, close + 1, Len(text)))
          ELSE <<Head(text)>> \o SpecialSequencesProcessed(Tail(text))

SendableTextToText(sendable_text) ==
  LET text_without_special_sequences == WithoutSpecialSequences(sendable_text)
      raw_text == SpecialSequencesProcessed(sendable_text)
  IN IF \E i \in 1..Len(text_without_special_sequences) :
          text_without_special_sequences[i] \in {"<", ">"}
     THEN InvalidSpecialSequence
     ELSE Replace(Replace(Replace(raw_text, Lt, <<"<">>), Gt, <<">">>), Amp, <<"&">>)

InitText ==
  /\ Built(1)
  /\ pc = "probe"
  /\ \E text \in Texts :
       \/ probe = [fn |-> "round_trip", stage |-> "plain", in |-> text,
                   sendable |-> <<>>, out |-> <<>>]
       \/ probe = [fn |-> "decode", stage |-> "sendable", in |-> text,
                   sendable |-> text, out |-> <<>>]

Encode ==
  /\ pc = "probe"
  /\ probe.fn = "round_trip"
  /\ probe.stage = "plain"
  /\ probe' = [probe EXCEPT !.stage = "sendable",
                            !.sendable = TextToSendableText(probe.in)]
  /\ UNCHANGED <<now, pc, progVars, reads, dispatched, sends, issued, calls, errors,
                 sc_done, starts, timeouts, session, thread, user_input_queue>>

Decode ==
  /\ pc = "probe"
  /\ probe.fn \in {"round_trip", "decode"}
  /\ probe.stage = "sendable"
  /\ probe' = [probe EXCEPT !.stage = "text",
                            !.out = SendableTextToText(probe.sendable)]
  /\ UNCHANGED <<now, pc, progVars, reads, dispatched, sends, issued, calls, errors,
                 sc_done, starts, timeouts, session, thread, user_input_queue>>

NextText == Encode \/ Decode

SpecText == InitText /\ [][NextText]_vars

\* SpecConsole: production mode.  The ad-hoc plugin is put in front, the
\* administrator console thread is started, then the main thread runs the
\* dispatch loop while the administrator calls reload_plugin in the console.
\* The two threads interleave between any two steps.
MaxReloads == 1

\* the AdHocPlugin instance; the other plugins are PluginNames
AdHocPlugin == 0

\* the console thread waiting at its prompt, `done` commands executed
ConsoleIdle(done) ==
  [at |-> "idle", class |-> 0, before |-> <<>>, called |-> 0, wake |-> 0,
   message_id |-> 0, done |-> done]

IsRegistered(plugin_class) == \E i \in 1..Len(plugins) : plugins[i] = plugin_class

\* `if not any(isinstance(plugin, AdHocPlugin) ...): botty.plugins.insert(0, ...)`
InsertAdHocPlugin ==
  /\ pc = "init"
  /\ thread = NoThread
  /\ ~IsRegistered(AdHocPlugin)
  /\ plugins' = <<AdHocPlugin>> \o plugins
  /\ UNCHANGED <<now, pc, thread, user_input_queue, max_message_id, last_say_time,
                 unprocessed_incoming_messages, last_ping, batch, ctx, hidx,
                 last_message_timestamp, last_message_thread_id,
                 last_message_channel_id, recent_events, sc, obsVars>>

\* botty.administrator_console(globals()): console_thread.start()
AdministratorConsole ==
  /\ pc = "init"
  /\ thread = NoThread
  /\ IsRegistered(AdHocPlugin)
  /\ thread' = ConsoleIdle(0)
  /\ UNCHANGED <<now, pc, user_input_queue, progVars, obsVars>>

\* the index of the first element of the list that is an instance of the
\* class, 0 when there is none
FirstInstance(list, plugin_class) ==
  IF \E i \in 1..Len(list) : list[i] = plugin_class
  THEN CHOOSE i \in 1..Len(list) :
         list[i] = plugin_class /\ \A j \in 1..(i - 1) : list[j] # plugin_class
  ELSE 0

\* del list[i]
Deleted(list, i) == SubSeq(list, 1, i - 1) \o SubSeq(list, i + 1, Len(list))

\* reload_plugin up to the end of its for loop.  importlib.reload runs the
\* module again, which makes a new class object: the registered instance is an
\* instance of the new class only when the module takes the class from
\* elsewhere (same_class).
ReloadPluginDelete(plugin_class, same_class) ==
  /\ thread.at = "idle"
  /\ thread.done < MaxReloads
  /\ LET i == IF same_class THEN FirstInstance(plugins, plugin_class) ELSE 0
     IN plugins' = IF i = 0 THEN plugins ELSE Deleted(plugins, i)
  /\ thread' = [thread EXCEPT !.at = "register", !.class = plugin_class,
                              !.before = plugins]
  /\ UNCHANGED <<now, pc, user_input_queue, max_message_id, last_say_time,
                 unprocessed_incoming_messages, last_ping, batch, ctx, hidx,
                 last_message_timestamp, last_message_thread_id,
                 last_message_channel_id, recent_events, sc, obsVars>>

\* botty.register_plugin(PluginClass(botty)) at the end of reload_plugin
ReloadPluginRegister ==
  /\ thread.at = "register"
  /\ plugins' = Append(plugins, thread.class)
  /\ thread' = [thread EXCEPT !.at = "idle", !.done = @ + 1]
  /\ UNCHANGED <<now, pc, user_input_queue, max_message_id, last_say_time,
                 unprocessed_incoming_messages, last_ping, batch, ctx, hidx,
                 last_message_timestamp, last_message_thread_id,
                 last_message_channel_id, recent_events, sc, obsVars>>

NextConsole ==
  \/ InsertAdHocPlugin
  \/ AdministratorConsole
  \/ thread # NoThread /\ StartLoop
  \/ Connect("ok")
  \/ OnStep
  \/ \E handled \in BOOLEAN : PluginReturn(handled)
  \/ \E new \in Batches(SessionEvents, MaxReads) : Pull(TRUE, new)
  \/ OnMessage
  \/ EndTick(TRUE)
  \/ \E plugin_class \in PluginNames, same_class \in BOOLEAN :
       ReloadPluginDelete(plugin_class, same_class)
  \/ ReloadPluginRegister

SpecConsole == Init /\ [][NextConsole]_vars

\* SpecConsoleSay: production mode with one plugin that calls say from its
\* callbacks while the administrator calls say(channel, text) in the console.
\* The console thread's call of SlackBot.say is taken statement by statement,
\* the main thread may run between any two of them.

MaxConsoleSays == 2

\* say(channel, text) up to the `if` of the rate limit: time.monotonic(), and
\* `self.last_say_time = current_time` when the last send is old enough.
\* channel_ok: get_channel_id_by_name finds the channel (else the first
\* assertion of say fails and the console prints the traceback)
ConsoleSayBegin(channel_ok) ==
  /\ thread.at = "idle"
  /\ thread.done < MaxConsoleSays
  /\ IF ~channel_ok
     THEN /\ thread' = [thread EXCEPT !.done = @ + 1]
          /\ UNCHANGED last_say_time
     ELSE IF now - last_say_time < SayInterval
     THEN /\ thread' = [thread EXCEPT !.at = "sleep", !.called = now,
                                      !.wake = now + SleepDuration(now, last_say_time)]
          /\ UNCHANGED last_say_time
     ELSE /\ thread' = [thread EXCEPT !.at = "id", !.called = now, !.wake = now]
          /\ last_say_time' = now
  /\ UNCHANGED <<now, pc, user_input_queue, plugins, max_message_id, unprocessed_incoming_messages,
                 last_ping, batch, ctx, hidx, last_message_timestamp,
                 last_message_thread_id, last_message_channel_id, recent_events, sc,
                 obsVars>>

\* time.sleep(...) returns; self.last_say_time += 1
ConsoleSayWake ==
  /\ thread.at = "sleep"
  /\ now >= thread.wake
  /\ last_say_time' = last_say_time + SayInterval
  /\ thread' = [thread EXCEPT !.at = "id"]
  /\ UNCHANGED <<now, pc, user_input_queue, plugins, max_message_id, unprocessed_incoming_messages,
                 last_ping, batch, ctx, hidx, last_message_timestamp,
                 last_message_thread_id, last_message_channel_id, recent_events, sc,
                 obsVars>>

\* message_id = self.max_message_id
ConsoleSayId ==
  /\ thread.at = "id"
  /\ thread' = [thread EXCEPT !.at = "increment", !.message_id = max_message_id]
  /\ issued' = Append(issued, [id |-> max_message_id, start |-> starts])
  /\ UNCHANGED <<now, pc, user_input_queue, progVars, reads, dispatched, sends, calls, errors, sc_done,
                 starts, timeouts, session, probe>>

\* self.max_message_id += 1
ConsoleSayIncrement ==
  /\ thread.at = "increment"
  /\ max_message_id' = NextMessageId(max_message_id)
  /\ thread' = [thread EXCEPT !.at = "send"]
  /\ UNCHANGED <<now, pc, user_input_queue, plugins, last_say_time, unprocessed_incoming_messages,
                 last_ping, batch, ctx, hidx, last_message_timestamp,
                 last_message_thread_id, last_message_channel_id, recent_events, sc,
                 obsVars>>

\* self.client.server.send_to_websocket({"id": message_id, ...}); return
ConsoleSaySend ==
  /\ thread.at = "send"
  /\ sends' = Append(sends, [id |-> thread.message_id, called |-> thread.called,
                             at |-> now, channel |-> "C1", thread_ts |-> "NONE"])
  /\ thread' = ConsoleIdle(thread.done + 1)
  /\ UNCHANGED <<now, pc, user_input_queue, progVars, reads, dispatched, issued, calls, errors, sc_done,
                 starts, timeouts, session, probe>>

NextConsoleSay ==
  \/ InsertAdHocPlugin
  \/ AdministratorConsole
  \/ thread # NoThread /\ StartLoop
  \/ Connect("ok")
  \/ OnStep
  \/ PluginReturn(FALSE)
  \/ CanSay(MaxSaySends) /\ PluginSay("sent", 0)
  \/ TimePasses({"tick", "handler"}, MaxSayTime)
  \/ Pull(TRUE, <<>>)
  \/ EndTick(TRUE)
  \/ \E channel_ok \in BOOLEAN : CanSay(MaxSaySends) /\ ConsoleSayBegin(channel_ok)
  \/ ConsoleSayWake
  \/ ConsoleSayId
  \/ ConsoleSayIncrement
  \/ ConsoleSaySend

SpecConsoleSay == InitAck /\ [][NextConsoleSay]_vars

\* SpecDebug: local debug mode (SlackDebugBot).  The input thread reads lines
\* and puts them in user_input_queue; the main thread calls on_step, drains
\* the queue through handle_user_input and sleeps.
MaxInputs == 3

\* what handle_user_input makes of a line: a message, a reaction event
\* ("/react"), no event ("/channel"); "eof" is the None put at end of input
InputKinds == {"text", "react", "channel", "eof"}

\* the message dict handle_user_input builds for an ordinary line
DebugMessage ==
  [BlankEvent EXCEPT !.type = "message", !.channel = "Cgeneral", !.user = "UMe",
                     !.text = "hi", !.ts = "300.1"]

\* the event dict handle_user_input builds for "/react -1 eggplant"
DebugReaction ==
  [BlankEvent EXCEPT !.type = "reaction_added", !.user = "UMe",
                     !.reaction = "eggplant", !.item = Dict,
                     !.i_channel = "Cgeneral", !.i_ts = "300.1"]

\* the input thread at its prompt, after `typed` lines
AtPrompt(typed) == [at |-> "input", typed |-> typed]

\* (mutation: the input thread passes the line to the handlers itself)
AcceptInputAndHandle(line) ==
  /\ thread.at = "input"
  /\ thread.typed < MaxInputs
  /\ line # "eof"
  /\ thread' = [thread EXCEPT !.typed = @ + 1]
  /\ dispatched' = Append(dispatched, DebugMessage)
  /\ calls' = Append(calls, Invocation(1))
  /\ UNCHANGED <<now, pc, user_input_queue, progVars, reads, sends, issued, errors,
                 sc_done, starts, timeouts, session, probe>>

\* SlackDebugBot.start up to the while loop: the queue is made and the input
\* thread started
DebugStart ==
  /\ pc = "init"
  /\ thread = NoThread
  /\ pc' = "tick"
  /\ thread' = AtPrompt(0)
  /\ starts' = starts + 1
  /\ UNCHANGED <<now, user_input_queue, progVars, reads, dispatched, sends, issued,
                 calls, errors, sc_done, timeouts, session, probe>>

\* accept_input: input() returns a line (or raises EOFError), the line (or
\* None) is put in the queue; after a line the thread waits in join()
AcceptInput(line) ==
  /\ thread.at = "input"
  /\ thread.typed < MaxInputs
  /\ user_input_queue' = [items |-> Append(user_input_queue.items, line),
                          unfinished |-> user_input_queue.unfinished + 1]
  /\ thread' = [at |-> IF line = "eof" THEN "returned" ELSE "join",
                typed |-> thread.typed + 1]
  /\ UNCHANGED <<now, pc, progVars, obsVars>>

\* user_input_queue.join() returns: every task put was marked done
InputJoined ==
  /\ thread.at = "join"
  /\ user_input_queue.unfinished = 0
  /\ thread' = [thread EXCEPT !.at = "input"]
  /\ UNCHANGED <<now, pc, user_input_queue, progVars, obsVars>>

\* `while not user_input_queue.empty()`: get() and handle_user_input up to
\* its call of self.on_message; None raises KeyboardInterrupt, which ends start
DebugGet ==
  /\ pc = "pull"
  /\ user_input_queue.items # <<>>
  /\ LET user_input == Head(user_input_queue.items)
         \* self.messages[offset] raises IndexError: no message was typed yet
         out_of_range == \A i \in 1..Len(dispatched) : dispatched[i] # DebugMessage
         \* handle_user_input returns without calling on_message
         no_event == user_input = "channel" \/ (user_input = "react" /\ out_of_range)
     IN /\ user_input_queue' =
             [items |-> Tail(user_input_queue.items),
              unfinished |-> IF no_event
                             THEN user_input_queue.unfinished - 1
                             ELSE user_input_queue.unfinished]
        /\ pc' = IF user_input = "eof" THEN "stopped"
                 ELSE IF no_event THEN "pull" ELSE "dispatch"
        /\ batch' = IF no_event \/ user_input = "eof" THEN <<>>
                    ELSE IF user_input = "text" THEN <<DebugMessage>>
                    ELSE <<DebugReaction>>
  /\ UNCHANGED <<now, thread, plugins, max_message_id, last_say_time,
                 unprocessed_incoming_messages, last_ping, ctx, hidx,
                 last_message_timestamp, last_message_thread_id,
                 last_message_channel_id, recent_events, sc, obsVars>>

\* self.on_message has returned to handle_user_input: user_input_queue.task_done()
DebugTaskDone ==
  /\ pc = "dispatch"
  /\ batch = <<>>
  /\ user_input_queue' = [user_input_queue EXCEPT !.unfinished = @ - 1]
  /\ pc' = "pull"
  /\ UNCHANGED <<now, thread, progVars, obsVars>>

\* the queue is empty: time.sleep(0.01) and the next iteration
DebugSleep ==
  /\ pc = "pull"
  /\ user_input_queue.items = <<>>
  /\ pc' = "tick"
  /\ UNCHANGED <<now, thread, user_input_queue, progVars, obsVars>>

NextDebug ==
  \/ DebugStart
  \/ \E line \in InputKinds : AcceptInput(line)
  \/ InputJoined
  \/ OnStep
  \/ \E handled \in BOOLEAN : PluginReturn(handled)
  \/ DebugGet
  \/ OnMessage
  \/ DebugTaskDone
  \/ DebugSleep

SpecDebug == Init /\ [][NextDebug]_vars

\* SpecRespond: one plugin that answers with respond and respond_complete from
\* its callbacks, while messages of two channels, in and out of a thread, and
\* from a bot arrive.

\* a user's message in a thread of another channel
ThreadMessage ==
  [BlankEvent EXCEPT !.type = "message", !.user = "U1", !.channel = "C2",
                     !.ts = "100.5", !.thread_ts = "99.9", !.text = "yes"]

RespondEvents == {UserMessage, ThreadMessage, BotMessage}

\* (mutation: the thread of the message is not looked at)
TopLevelOnly(thread_id, timestamp, as_thread) == "NONE"

\* `self.last_message_thread_id or (self.last_message_timestamp if as_thread else None)`
RespondThread(thread_id, timestamp, as_thread) ==
  IF thread_id # "NONE" THEN thread_id
  ELSE IF as_thread THEN timestamp ELSE "NONE"

\* Botty.respond, called by a plugin's callback
PluginRespond(as_thread) ==
  IF last_message_channel_id = "NONE"
  THEN \* "No message to respond to": the AssertionError leaves the plugin
       /\ pc = "handler"
       /\ PluginExit("raise")
       /\ UNCHANGED <<now, plugins, max_message_id, last_say_time,
                      unprocessed_incoming_messages, last_ping, batch, ctx,
                      last_message_timestamp, last_message_thread_id,
                      last_message_channel_id, recent_events, sc,
                      reads, dispatched, sends, issued, sc_done, starts, timeouts,
                      session, probe, thread, user_input_queue>>
  ELSE SayCall("sent", 0, last_message_channel_id,
               RespondThread(last_message_thread_id, last_message_timestamp, as_thread))

\* Botty.respond_complete, called by a plugin's callback: the thread_id it
\* computes is not the one it passes on
PluginRespondComplete(as_thread, timeout) ==
  /\ last_message_channel_id # "NONE"
  /\ LET thread_id == RespondThread(last_message_thread_id, last_message_timestamp,
                                    as_thread)
     IN SayCompleteCall(timeout, 0, last_message_channel_id, last_message_thread_id)

NextRespond ==
  \/ StartLoop
  \/ Connect("ok")
  \/ OnStep
  \/ PluginReturn(FALSE)
  \/ \E as_thread \in BOOLEAN :
       (last_message_channel_id # "NONE" => CanSay(MaxSends)) /\ PluginRespond(as_thread)
  \/ \E timeout \in Timeouts : CanSay(MaxSends) /\ PluginRespondComplete(TRUE, timeout)
  \/ TimePasses({"say_complete"}, sc.start_time + sc.timeout)
  \/ Len(reads) < MaxReads /\ SayCompletePoll(<<AckOk(sc.message_id)>>)
  \/ SayCompleteTimeout
  \/ \E new \in Batches(RespondEvents, MaxReads) : Pull(TRUE, new)
  \/ OnMessage
  \/ EndTick(TRUE)

SpecRespond == InitAck /\ [][NextRespond]_vars

\* SpecClassify: the classification predicates of IncomingMessage and the
\* accessors is_text_message vouches for, applied to every raw record built
\* from a type tag, the top-level keys and the nested "message" and "item".
BoolOf(b) == IF b THEN "true" ELSE "false"

IsTextMessage(m) ==
  IF m.type # "message" THEN "false"
  ELSE IF ~IsStr(m.ts) THEN "false"
  ELSE IF ~IsStr(m.channel) THEN "false"
  ELSE IF IsStr(m.text) /\ IsStr(m.user) THEN "true"
  ELSE BoolOf(/\ m.subtype = "message_changed"
              /\ m.message = Dict
              /\ IsStr(m.m_user)
              /\ IsStr(m.m_channel)
              /\ IsStr(m.m_text))

\* `not self.is_bot_message and self.is_text_message`
IsUserTextMessage(m, is_bot_message) ==
  IF is_bot_message THEN "false" ELSE IsTextMessage(m)

\* `self.message_dict.get("type") == tag and self.channel_id and self.user_id`
\* for tag "reaction_added" (is_reaction_addition) and "reaction_removed"
\* (is_reaction_removal); the ids are non-empty strings or the accessor raises
IsReaction(m, tag) ==
  IF m.type # tag THEN "false"
  ELSE IF ChannelId(m) \in Errors THEN ChannelId(m)
  ELSE IF UserId(m) \in Errors THEN UserId(m)
  ELSE "true"

\* every predicate and the four accessors of one message
Classified(m) ==
  [is_action_message |-> BoolOf(IsActionMessage(m)),
   is_text_message |-> IsTextMessage(m),
   is_user_text_message |-> IsUserTextMessage(m, FALSE),
   is_reaction_addition |-> IsReaction(m, "reaction_added"),
   is_reaction_removal |-> IsReaction(m, "reaction_removed"),
   timestamp |-> Timestamp(m), text |-> Text(m), user_id |-> UserId(m),
   channel_id |-> ChannelId(m)]

\* a key: missing, not a string, or a string
Typed(string) == {Absent, NonStr, string}

ClassifyRecords ==
  {[BlankEvent EXCEPT !.type = type, !.subtype = subtype, !.ts = ts,
                      !.channel = channel, !.text = text, !.user = user,
                      !.message = sub[1], !.m_user = sub[2], !.m_channel = sub[3],
                      !.m_text = sub[4],
                      !.item = itm[1], !.i_channel = itm[2], !.i_ts = itm[3]] :
     type \in {"message", "reaction_added", "reaction_removed", "pong"},
     subtype \in {Absent, "message_changed"},
     ts \in Typed("1.0"), channel \in Typed("C1"), text \in Typed("hi"),
     user \in Typed("U1"),
     sub \in {<<Absent, Absent, Absent, Absent>>, <<NonDict, Absent, Absent, Absent>>}
              \cup ({Dict} \X {Absent, "U1"} \X {Absent, "C1"} \X {Absent, "hi"}),
     itm \in {<<Absent, Absent, Absent>>, <<NonDict, Absent, Absent>>,
              <<Dict, "C1", "1.0">>}}

InitClassify ==
  /\ Built(1)
  /\ pc = "probe"
  /\ \E r \in ClassifyRecords : probe = [fn |-> "classify", in |-> r, applied |-> FALSE]

Classify ==
  /\ pc = "probe"
  /\ probe.fn = "classify"
  /\ ~probe.applied
  /\ probe' = [fn |-> "classify", in |-> probe.in, applied |-> TRUE,
                out |-> Classified(probe.in)]
  /\ UNCHANGED <<now, pc, thread, user_input_queue, progVars, reads, dispatched,
                 sends, issued, calls, errors, sc_done, starts, timeouts, session>>

NextClassify == Classify

SpecClassify == InitClassify /\ [][NextClassify]_vars

\* SpecFlow: one Flow, whose start and step are called with any keys in any
\* order.  A generator is the list of what each of its resumptions does: it
\* yields some number of times, then returns or raises.
MaxYields == 2      \* most yields of one generator
MaxFlowCalls == 4   \* number of start and step calls

FlowKeys == {"k1", "k2"}

\* the bodies generator_function may have
Scripts ==
  {[i \in 1..(n + 1) |-> IF i <= n THEN "yield" ELSE end] :
     n \in 0..MaxYields, end \in {"return", "raise"}}

\* `self.generator_function(parameter_data)`: a generator object, nothing run
Generator(script) == [script |-> script, at |-> 0, alive |-> TRUE]

\* next(g) / g.send(data): run g to its next yield, its return (StopIteration
\* carrying the value) or its exception; a finished generator raises
\* StopIteration with the value None
Resume(g) ==
  IF ~g.alive THEN [gen |-> g, outcome |-> "StopIteration", value |-> "None"]
  ELSE LET move == g.script[g.at + 1]
       IN IF move = "yield"
          THEN [gen |-> [g EXCEPT !.at = @ + 1], outcome |-> "yield",
                value |-> "yielded"]
          ELSE IF move = "return"
          THEN [gen |-> [g EXCEPT !.at = @ + 1, !.alive = FALSE],
                outcome |-> "StopIteration", value |-> "returned"]
          ELSE [gen |-> [g EXCEPT !.at = @ + 1, !.alive = FALSE],
                outcome |-> "raise", value |-> "Exception"]

\* the generator is suspended at a yield
Suspended(g) == g.alive /\ g.at >= 1

\* d[k] = v  and  del d[k]  on a dict
Put(d, k, v) == [x \in DOMAIN d \cup {k} |-> IF x = k THEN v ELSE d[x]]
Del(d, k) == [x \in DOMAIN d \ {k} |-> d[x]]

\* Flow.is_running
IsRunning(generator_iterators, flow_key) == flow_key \in DOMAIN generator_iterators

\* Flow.__init__; `started` keeps, for each key, the generator last started
\* for it (the same object as the one in generator_iterators while it is there)
InitFlow ==
  /\ Built(1)
  /\ pc = "probe"
  /\ probe = [fn |-> "flow", generator_iterators |-> [k \in {} |-> 0],
              started |-> [k \in {} |-> 0], before |-> [k \in {} |-> 0],
              op |-> "none", key |-> "none", outcome |-> "none",
              value |-> "none", result |-> "none", flow_calls |-> 0]

\* Flow.start(flow_key, parameter_data): the generator is stored, then run to
\* its first yield; what next() raises leaves start
FlowStart(flow_key, script) ==
  /\ pc = "probe"
  /\ probe.fn = "flow"
  /\ probe.flow_calls < MaxFlowCalls
  /\ LET r == Resume(Generator(script))
     IN probe' = [probe EXCEPT
                    !.generator_iterators = Put(@, flow_key, r.gen),
                    !.started = Put(@, flow_key, r.gen),
                    !.before = probe.generator_iterators,
                    !.op = "start", !.key = flow_key,
                    !.outcome = r.outcome, !.value = r.value,
                    !.result = IF r.outcome = "yield" THEN "None"
                               ELSE IF r.outcome = "StopIteration" THEN "StopIteration"
                               ELSE "Exception",
                    !.flow_calls = @ + 1]
  /\ UNCHANGED <<now, pc, thread, user_input_queue, progVars, reads, dispatched,
                 sends, issued, calls, errors, sc_done, starts, timeouts, session>>

\* Flow.step(flow_key, yield_data)
FlowStep(flow_key) ==
  /\ pc = "probe"
  /\ probe.fn = "flow"
  /\ probe.flow_calls < MaxFlowCalls
  /\ IF ~IsRunning(probe.generator_iterators, flow_key)
     THEN probe' = [probe EXCEPT
                      !.before = probe.generator_iterators,
                      !.op = "step", !.key = flow_key, !.outcome = "none",
                      !.value = "none", !.result = "False",
                      !.flow_calls = @ + 1]
     ELSE LET r == Resume(probe.generator_iterators[flow_key])
          IN probe' = [probe EXCEPT
                         !.generator_iterators =
                            IF r.outcome = "StopIteration" THEN Del(@, flow_key)
                            ELSE Put(@, flow_key, r.gen),
                         !.started = Put(@, flow_key, r.gen),
                         !.before = probe.generator_iterators,
                         !.op = "step", !.key = flow_key,
                         !.outcome = r.outcome, !.value = r.value,
                         !.result = r.value,
                         !.flow_calls = @ + 1]
  /\ UNCHANGED <<now, pc, thread, user_input_queue, progVars, reads, dispatched,
                 sends, issued, calls, errors, sc_done, starts, timeouts, session>>

NextFlow ==
  \/ \E flow_key \in FlowKeys, script \in Scripts : FlowStart(flow_key, script)
  \/ \E flow_key \in FlowKeys : FlowStep(flow_key)

SpecFlow == InitFlow /\ [][NextFlow]_vars

\* ================================================================ claims
CallbackOver == pc \notin {"handler", "say_complete"}

\* C1 (Spec): within one event or step the plugins are called in registration
\* order, every plugin called before the last one returned false (the loop
\* stops at the first truthy result), and when all returned false every
\* registered plugin was called.
C1_FirstMatchWins ==
  /\ \A i \in 1..Len(calls) : calls[i].plugin = plugins[i]
  /\ \A i \in 1..(Len(calls) - 1) : calls[i].result = "false"
  /\ (CallbackOver /\ calls # <<>> /\ calls[Len(calls)].result = "false")
       => Len(calls) = Len(plugins)

\* handlers [A, B, C], A.on_message -> false, B.on_message -> true: C was not called
C1_Witness ==
  /\ ctx = "msg" /\ pc = "dispatch" /\ Len(plugins) = 3
  /\ Len(calls) = 2 /\ calls[1].result = "false" /\ calls[2].result = "true"

\* C2 (Spec), as claimed: when a plugin raises, one error record is logged and
\* the plugins registered after it are still called for the same event or step.
C2_LaterHandlersStillCalled ==
  \A i \in 1..Len(calls) :
    (CallbackOver /\ calls[i].result = "raise" /\ i < Len(plugins))
      => (errors = 1 /\ Len(calls) > i)

\* C3 (SpecIds): the ids assigned by say are strictly increasing, whatever
\* sends failed, calls timed out or restarts happened in between.
C3_IdsStrictlyIncreasing ==
  \A i, j \in 1..Len(issued) : i < j => issued[i].id < issued[j].id

\* an id assigned before a restart and one after it, a send that failed and a
\* say_complete that timed out
C3_Witness ==
  /\ Len(issued) >= 2
  /\ issued[1].start < issued[Len(issued)].start
  /\ Len(sends) < Len(issued)
  /\ timeouts >= 1

\* C4 (SpecSay), as claimed: two consecutive raw sends are never closer
\* together than the minimum interval.
C4_SendsSpaced ==
  \A i \in 2..Len(sends) : sends[i].at - sends[i - 1].at >= SayInterval

\* C5 (SpecSay), as claimed: for a burst of back-to-back say calls (each issued
\* at the time the previous one returned, the first one not), the sends of the
\* first and of the n-th call are at least n-1 intervals apart; no call is dropped.
C5_BurstSpread ==
  /\ Len(sends) = Len(issued)
  /\ \A i, j \in 1..Len(sends) :
       ( /\ i < j
         /\ (i > 1 => sends[i].called # sends[i - 1].at)
         /\ \A k \in (i + 1)..j : sends[k].called = sends[k - 1].at )
       => sends[j].at - sends[i].at >= (j - i) * SayInterval

\* C6 (SpecAck): say_complete returns the ts of the first reply to its own id
\* among the events read since its send, wherever that reply stands; it is
\* never still waiting once such a reply was read.
C6_ReplyFoundAnywhere ==
  LET scanned == SubSeq(reads, sc_done.first + 1, sc_done.last)
      own == {i \in 1..Len(scanned) :
                scanned[i].ok # Absent /\ scanned[i].reply_to = sc_done.message_id}
      unseen == SubSeq(reads, sc.first + 1, Len(reads))
  IN /\ (sc_done.result # "none" /\ own # {})
          => LET k == CHOOSE i \in own : \A j \in own : i <= j
             IN (scanned[k].ok = "TRUE" /\ IsStr(scanned[k].ts))
                  => sc_done.result = scanned[k].ts
     /\ (sc_done.result \notin {"none", "TimeoutError", "ValueError", "AssertionError"})
          => \E i \in own : scanned[i].ok = "TRUE" /\ scanned[i].ts = sc_done.result
     /\ sc.active
          => \A i \in 1..Len(unseen) :
               ~(unseen[i].ok = "TRUE" /\ unseen[i].reply_to = sc.message_id)

\* the reply to id 1 comes third, after a user message and a reply to another id
C6_Witness ==
  /\ sc_done.message_id = 1
  /\ sc_done.last = sc_done.first + 3
  /\ reads[sc_done.first + 1] = UserMessage
  /\ reads[sc_done.first + 2].reply_to = 2
  /\ reads[sc_done.first + 3] = AckOk(1)
  /\ sc_done.result = AckOk(1).ts

\* C7 (SpecAck): a say_complete that read no reply to its id ends with
\* TimeoutError, not before its timeout; after it the call's state is gone:
\* outside a running say_complete nothing is awaited, however many timed out.
C7_TimeoutLeavesNothing ==
  LET scanned == SubSeq(reads, sc_done.first + 1, sc_done.last)
  IN /\ ( /\ sc_done.result # "none"
          /\ \A i \in 1..Len(scanned) :
               ~(scanned[i].ok # Absent /\ scanned[i].reply_to = sc_done.message_id) )
          => (sc_done.result = "TimeoutError" /\ sc_done.elapsed >= sc_done.timeout)
     /\ sc_done.result = "TimeoutError" => sc = NoCall
     /\ pc # "say_complete" => sc = NoCall

\* the second of two say_complete calls has timed out as well
C7_Witness ==
  /\ timeouts = 2
  /\ sc_done.result = "TimeoutError"
  /\ sc_done.message_id = 2
  /\ pc = "tick"

\* C8 (SpecAck): when the first reply to its id that say_complete reads is
\* negative, it ends with the sending error (ValueError) before the timeout
\* has elapsed.
C8_NegativeReplyFails ==
  LET scanned == SubSeq(reads, sc_done.first + 1, sc_done.last)
      own == {i \in 1..Len(scanned) :
                scanned[i].ok # Absent /\ scanned[i].reply_to = sc_done.message_id}
  IN (sc_done.result # "none" /\ own # {})
       => LET k == CHOOSE i \in own : \A j \in own : i <= j
          IN scanned[k].ok = "FALSE"
               => (sc_done.result = "ValueError" /\ sc_done.elapsed < sc_done.timeout)

\* a negative reply read one tick into a two-tick timeout, after another event
C8_Witness ==
  /\ sc_done.result = "ValueError"
  /\ sc_done.timeout = 2
  /\ sc_done.elapsed = 1
  /\ sc_done.last = sc_done.first + 2

\* C9 (Spec), as claimed: dispatching a reply that no say_complete awaits
\* raises no error: no error record is logged for it.
C9_UnawaitedReplyIgnored ==
  ( /\ ctx = "msg"
    /\ dispatched # <<>>
    /\ dispatched[Len(dispatched)].ok # Absent
    /\ ~sc.active )
  => errors = 0

\* C10 (SpecAck): the events passed to on_message, then those of the batch
\* being dispatched, then those kept by peeks, are the events the transport
\* returned, in order: nothing is dispatched twice, dropped or reordered.
C10_DispatchedAreReads ==
  /\ dispatched \o batch \o unprocessed_incoming_messages = reads
  /\ (batch = <<>> /\ unprocessed_incoming_messages = <<>>) => dispatched = reads

\* say_complete has peeked from inside a handler (the peeked event is kept for
\* the dispatcher) while the batch being dispatched still holds an event
C10_Witness ==
  /\ pc = "say_complete" /\ ctx = "msg"
  /\ dispatched # <<>> /\ batch # <<>> /\ unprocessed_incoming_messages # <<>>

\* C11 (Spec): a plugin is only ever called for a message whose sender (the
\* top-level "user", else the "user" of the nested "message") is no bot
\* account; dispatching a bot's message calls no plugin and leaves the
\* last_message_* target of respond as it was.
C11_BotEventsDropped ==
  [][ LET m == dispatched'[Len(dispatched')]
          sender == IF m.user # Absent THEN m.user
                    ELSE IF m.message = Dict THEN m.m_user ELSE Absent
      IN /\ (ctx' = "msg" /\ calls' # <<>>) => sender \notin BotUsers
         /\ (dispatched' # dispatched /\ sender \in BotUsers)
              => /\ pc' # "handler"
                 /\ UNCHANGED <<last_message_timestamp, last_message_thread_id,
                                last_message_channel_id, recent_events>>
    ]_vars

\* after a user's message in C1, a bot's message in C2 was dispatched: no plugin
\* was called and respond still targets C1
C11_Witness ==
  /\ ctx = "msg" /\ pc = "dispatch"
  /\ Len(dispatched) >= 2
  /\ dispatched[Len(dispatched) - 1] = UserMessage
  /\ dispatched[Len(dispatched)] \in {BotMessage, EditedBotMessage}
  /\ calls = <<>> /\ errors = 0
  /\ last_message_channel_id = "C1"

\* C12 (SpecSession): every Connecting after the first follows a Failed by a
\* sleep of at least 5 seconds, and when the first two connection attempts fail
\* and the third succeeds the session has gone through Disconnected, Connecting,
\* Failed, Connecting, Failed, Connecting, Connected.
C12_BackoffBeforeReconnect ==
  LET IsAttempt(e) == e.why \in {"ok", "connect_error", "auth_error"}
      attempts == SelectSeq(session, IsAttempt)
  IN /\ \A i \in 2..Len(session) :
          session[i].state = "Connecting"
            => \/ i = 2 /\ session[1].state = "Disconnected"
               \/ /\ session[i - 1].state = "Failed"
                  /\ session[i].at - session[i - 1].at >= RestartSeconds * TicksPerSecond
     /\ ( /\ Len(attempts) >= 3
          /\ attempts[1].why = "connect_error"
          /\ attempts[2].why = "connect_error"
          /\ attempts[3].why = "ok" )
          => [i \in 1..7 |-> session[i].state] =
               <<"Disconnected", "Connecting", "Failed", "Connecting", "Failed",
                 "Connecting", "Connected">>

\* rtm_connect failed twice and the third start() is connected
C12_Witness ==
  /\ Len(session) = 7
  /\ session[3].why = "connect_error"
  /\ session[5].why = "connect_error"
  /\ session[7].state = "Connected"
  /\ pc = "tick"

\* C13 (SpecSession), as claimed: once the credential check has failed, no
\* further connection attempt is made.
C13_AuthFailureIsFatal ==
  \A i, j \in 1..Len(session) :
    (i < j /\ session[i].why = "auth_error") => session[j].state # "Connecting"

\* C14 (SpecSession): the session changes state only along the edges
\* Disconnected-Connecting (once, at the start), Connecting-Connected,
\* Connecting-Failed, Connected-Failed, Failed-Connecting and, on the stop
\* signal, any state to Disconnected; after the stop signal nothing happens any
\* more, wherever it arrived.
C14_SessionEdges ==
  [][ LET last == session'[Len(session')]
      IN /\ pc # "stopped"
         /\ \A i \in 2..Len(session') :
              LET from == session'[i - 1]
                  to == session'[i]
              IN \/ to.why = "stop" /\ to.state = "Disconnected" /\ i = Len(session')
                 \/ /\ to.why # "stop" /\ from.why # "stop"
                    /\ <<from.state, to.state>> \in
                         {<<"Disconnected", "Connecting">>, <<"Connecting", "Connected">>,
                          <<"Connecting", "Failed">>, <<"Connected", "Failed">>,
                          <<"Failed", "Connecting">>}
                    /\ from.state = "Disconnected" => i = 2
         /\ last.state = CASE pc' = "init" -> "Disconnected"
                           [] pc' = "stopped" -> "Disconnected"
                           [] pc' = "connect" -> "Connecting"
                           [] pc' = "restart" -> "Failed"
                           [] OTHER -> "Connected"
         /\ pc' = "stopped" <=> last.why = "stop"
    ]_vars

\* the stop signal arrived during the backoff sleep after a failed session
C14_Witness ==
  /\ pc = "stopped"
  /\ Len(session) >= 3
  /\ session[Len(session)].why = "stop"
  /\ session[Len(session) - 1].state = "Failed"
  /\ session[Len(session) - 2].state = "Connected"

\* C15 (SpecSession), as claimed: when the loop has stopped, no plugin call was
\* left unfinished and every event of the last batch was dispatched.
C15_StopBetweenTicks ==
  pc = "stopped"
    => /\ \A i \in 1..Len(calls) : calls[i].result # "running"
       /\ batch = <<>>

\* C16 (SpecSession): at the end of a tick the probe is sent exactly when more
\* than 5 seconds have passed since the last one, so no tick starts with a
\* probe overdue; a failed probe makes the session Failed; start() is entered
\* again only after the backoff; while Failed or Connecting nothing is read or sent.
C16_ProbeWhenDue ==
  [][ /\ (pc = "dispatch" /\ batch = <<>> /\ pc' # "stopped")
           => IF now - last_ping > PingSeconds * TicksPerSecond
              THEN \/ pc' = "tick" /\ last_ping' = now
                   \/ /\ pc' = "restart"
                      /\ session'[Len(session')].state = "Failed"
                      /\ session'[Len(session')].why = "ping_error"
              ELSE pc' = "tick" /\ last_ping' = last_ping
      /\ pc' = "tick" => now' - last_ping' <= PingSeconds * TicksPerSecond
      /\ (pc = "restart" /\ pc' = "connect")
           => now' - now >= RestartSeconds * TicksPerSecond
      /\ pc \in {"restart", "connect"}
           => reads' = reads /\ sends' = sends /\ issued' = issued
    ]_vars

\* a probe failed, start_loop backed off, and the next session is connected
C16_Witness ==
  /\ Len(session) >= 6
  /\ session[Len(session) - 2].why = "ping_error"
  /\ session[Len(session) - 1].why = "backoff"
  /\ session[Len(session)].state = "Connected"
  /\ pc = "tick"

\* C17 (SpecAccess), as claimed: for every raw record, a required accessor
\* (timestamp, text, user_id, channel_id, reaction) raises ValueError when none
\* of the places it looks at holds a string, and what it returns is a string of
\* the record, never a default; thread_id returns None when the record has no
\* thread reference.
C17_MissingFieldIsValueError ==
  (probe.fn \in Accessors /\ probe.out # "none")
    => LET r == probe.in
           sub(v) == IF r.message = Dict THEN {v} ELSE {}
           itm(v) == IF r.item = Dict THEN {v} ELSE {}
           held == CASE probe.fn = "timestamp" -> {r.ts} \cup itm(r.i_ts)
                     [] probe.fn = "text" -> {r.text} \cup sub(r.m_text)
                     [] probe.fn = "user_id" -> {r.user} \cup sub(r.m_user)
                     [] probe.fn = "channel_id" ->
                          {r.channel} \cup sub(r.m_channel) \cup itm(r.i_channel)
                     [] probe.fn = "thread_id" -> {r.thread_ts} \cup sub(r.m_thread_ts)
                     [] probe.fn = "reaction" -> {r.reaction}
           strings == held \ {Absent, "NONE", NonStr}
       IN IF probe.fn = "thread_id"
          THEN held \subseteq {Absent} => probe.out = "NONE"
          ELSE /\ strings = {} => probe.out = "ValueError"
               /\ probe.out \in strings \cup {"ValueError"}

\* C18 (SpecAccess), as claimed: an accessor returns the first string among the
\* places it looks at, in order (top level, nested "message", nested "item"),
\* and fails only when none of them holds a string; stated for the records
\* whose nested values are dicts or missing.
C18_FirstTypedValueWins ==
  (probe.fn \in Accessors /\ probe.out # "none"
     /\ probe.in.message # NonDict /\ probe.in.item # NonDict)
    => LET r == probe.in
           sub(v) == IF r.message = Dict THEN <<v>> ELSE <<>>
           itm(v) == IF r.item = Dict THEN <<v>> ELSE <<>>
           places == CASE probe.fn = "timestamp" -> <<r.ts>> \o itm(r.i_ts)
                       [] probe.fn = "text" -> <<r.text>> \o sub(r.m_text)
                       [] probe.fn = "user_id" -> <<r.user>> \o sub(r.m_user)
                       [] probe.fn = "channel_id" ->
                            <<r.channel>> \o sub(r.m_channel) \o itm(r.i_channel)
                       [] probe.fn = "thread_id" -> <<r.thread_ts>> \o sub(r.m_thread_ts)
                       [] probe.fn = "reaction" -> <<r.reaction>>
           typed == {i \in 1..Len(places) : places[i] \notin {Absent, "NONE", NonStr}}
       IN IF typed = {}
          THEN probe.out = IF probe.fn = "thread_id"
                              /\ \A i \in 1..Len(places) : places[i] \in {Absent, "NONE"}
                           THEN "NONE" ELSE "ValueError"
          ELSE probe.out = places[CHOOSE i \in typed : \A j \in typed : i <= j]

\* C19 (SpecDirectory), as claimed: a lookup whose key is in the local list
\* issues no directory query; a cold lookup (key not in the local list) issues
\* exactly one, a second lookup of a key the directory holds issues no more,
\* the answer is the directory's, and a key the directory does not hold gives
\* None.  Stated for the keys that are no references.
C19_ColdLookupQueriesOnce ==
  (probe.fn \in Lookups /\ Len(probe.outs) >= 1
     /\ (ByName(probe.fn) => probe.key.form # "reference"))
    => LET names == IF OverUsers(probe.fn) THEN UserName ELSE ChannelName
           target == IF ~ByName(probe.fn) THEN probe.key
                     ELSE IF probe.key.form = "real"
                     THEN IdNamed(KnownUsers, RealName, probe.key.value)
                     ELSE IdNamed(Universe(probe.fn), names, probe.key.value)
           answer == IF ByName(probe.fn) THEN target ELSE names[target]
           out == probe.outs[Len(probe.outs)]
       IN /\ target \in probe.cold => probe.queries = 0
          /\ (target \notin probe.cold /\ (Len(probe.outs) = 1 \/ target \in probe.directory))
               => probe.queries = 1
          /\ out = IF target \in probe.directory THEN answer ELSE None

\* C20 (SpecText): for every plain text x without "&", "<" and ">" (hence
\* without inline references), sendable_text_to_text(text_to_sendable_text(x))
\* is x.
C20_RoundTrip ==
  (probe.fn = "round_trip" /\ probe.stage = "text"
     /\ \A i \in 1..Len(probe.in) : probe.in[i] \notin {"&", "<", ">"})
    => probe.out = probe.in

\* C20: a text of letters and blanks has gone through both conversions
C20_Witness ==
  /\ probe.fn = "round_trip"
  /\ probe.stage = "text"
  /\ probe.in = <<" ", "a", " ">>
  /\ probe.out = probe.in

\* C21 (SpecConsole), as claimed: the handler list does not change while the
\* dispatch loop iterates over it or a handler call is in flight.
C21_HandlersStableInFlight ==
  [][pc = "handler" => plugins' = plugins]_vars

\* C29 (SpecConsole), as claimed: after reload_plugin of a registered plugin
\* the number of handlers is the same, exactly one instance of the plugin is
\* registered, every handler is at the dispatch position it had, and the ad-hoc
\* handler is still first.
C29_ReloadInPlace ==
  (thread.at = "idle" /\ thread.done >= 1)
    => /\ Len(plugins) = Len(thread.before)
       /\ Cardinality({i \in 1..Len(plugins) : plugins[i] = thread.class}) = 1
       /\ \A i \in 1..Len(plugins) : plugins[i] = thread.before[i]
       /\ plugins[1] = AdHocPlugin

\* C22 (SpecConsoleSay), as claimed: whatever the interleaving of the console
\* thread with the dispatch loop, no two sends carry the same correlation id.
\* (That two sends are never closer than the minimum interval is C4.)
C22_SendIdsDistinct ==
  \A i, j \in 1..Len(sends) : i # j => sends[i].id # sends[j].id

\* C23 (SpecDebug): a step of the input thread, once started, only changes the thread and the
\* queue, it starts and ends no handler call and dispatches nothing; hence at
\* most one handler call is running at any time.
C23_InputThreadOnlyEnqueues ==
  [][ /\ (thread # NoThread /\ thread' # thread)
           => UNCHANGED <<pc, progVars, calls, dispatched>>
      /\ Cardinality({i \in 1..Len(calls') : calls'[i].result = "running"}) <= 1 ]_vars

\* C23: a line typed is being handled by a plugin's on_message on the main
\* thread while the input thread waits for it to be done
C23_Witness ==
  /\ thread.at = "join"
  /\ pc = "handler"
  /\ ctx = "msg"
  /\ dispatched # <<>>
  /\ calls[Len(calls)].result = "running"

\* C24 (SpecRespond): a send made by respond goes to the channel of the last
\* event that reached the handlers (not from a bot, its accessors succeeded),
\* and to that event's thread when it has one, else to the channel's top level
\* or to a new thread on that event.
C24_RespondTargetsLastEvent ==
  [][(sends' # sends /\ sc' = sc)
       => LET Reached(e) == /\ GetUserIsBot(UserId(e)) = "false"
                            /\ {Timestamp(e), ThreadId(e), ChannelId(e)} \cap Errors = {}
              reached == SelectSeq(dispatched, Reached)
              e == reached[Len(reached)]
              sent == sends'[Len(sends')]
          IN /\ reached # <<>>
             /\ sent.channel = e.channel
             /\ IF e.thread_ts # Absent
                THEN sent.thread_ts = e.thread_ts
                ELSE sent.thread_ts \in {"NONE", e.ts}]_vars

\* C24: after a message in one channel, respond inside on_message of a
\* threaded message of another channel went to that thread
C24_Witness ==
  /\ Len(dispatched) >= 2
  /\ dispatched[1] = UserMessage
  /\ dispatched[Len(dispatched)] = ThreadMessage
  /\ ctx = "msg"
  /\ sends # <<>>
  /\ sends[Len(sends)].channel = "C2"
  /\ sends[Len(sends)].thread_ts = "99.9"
  /\ sc = NoCall

\* C25 (SpecRespond), as claimed: respond_complete with a truthy as_thread,
\* when the last message is in no thread, sends a reply in a new thread on that
\* message (thread_ts is the message's timestamp), as respond does.
C25_RespondCompleteStartsThread ==
  [][(sends' # sends /\ sc'.active /\ last_message_thread_id = "NONE")
       => sends'[Len(sends')].thread_ts = last_message_timestamp]_vars

\* C26 (SpecClassify), as claimed: whenever is_text_message is True, timestamp,
\* text, user_id and channel_id each return a string.
C26_TextMessageHasFields ==
  (probe.fn = "classify" /\ probe.applied /\ probe.out.is_text_message = "true")
    => {probe.out.timestamp, probe.out.text, probe.out.user_id, probe.out.channel_id}
         \cap Errors = {}

\* C28 (SpecClassify), as claimed: for every raw record each classification
\* predicate returns a truth value and never raises.
C28_PredicatesTotal ==
  (probe.fn = "classify" /\ probe.applied)
    => {probe.out.is_action_message, probe.out.is_text_message,
        probe.out.is_user_text_message, probe.out.is_reaction_addition,
        probe.out.is_reaction_removal} \subseteq {"true", "false"}

\* C27 (Spec): when one of the accessors timestamp, thread_id, channel_id fails
\* for the event on_message is given, none of last_message_timestamp,
\* last_message_thread_id, last_message_channel_id changes, no handler is
\* invoked for the event and the event is not added to recent_events.
C27_TargetUpdatedAtomically ==
  [][LET message_dict == dispatched'[Len(dispatched')]
     IN (/\ dispatched' # dispatched
         /\ {Timestamp(message_dict), ThreadId(message_dict),
             ChannelId(message_dict)} \cap Errors # {})
          => /\ UNCHANGED <<last_message_timestamp, last_message_thread_id,
                            last_message_channel_id, recent_events>>
             /\ calls' = <<>>
             /\ pc' # "handler"]_vars

\* a user's message set the target, then an event with a timestamp and no
\* channel was given to on_message
C27_Witness ==
  /\ Len(dispatched) >= 2
  /\ dispatched[Len(dispatched) - 1] = UserMessage
  /\ dispatched[Len(dispatched)] = AckOk(1)
  /\ Timestamp(AckOk(1)) \notin Errors
  /\ ChannelId(AckOk(1)) \in Errors
  /\ IsActionMessage(AckOk(1))
  /\ errors = 1
  /\ calls = <<>>
  /\ pc = "dispatch"
  /\ last_message_timestamp = "100.1"
  /\ last_message_channel_id = "C1"
  /\ recent_events = <<UserMessage>>

\* C30 (SpecFlow), as claimed: after any start and step calls, is_running(key)
\* is true exactly when the generator last started for key is suspended at a
\* yield; a step in which the generator returns gives its return value; a step
\* on a key that is not running returns False and leaves every flow as it was.
C30_RunningWhileSuspended ==
  probe.fn = "flow" =>
    /\ \A k \in FlowKeys :
         IsRunning(probe.generator_iterators, k)
           <=> (k \in DOMAIN probe.started /\ Suspended(probe.started[k]))
    /\ (probe.op = "step" /\ probe.outcome = "StopIteration")
         => probe.result = probe.value
    /\ (probe.op = "step" /\ ~IsRunning(probe.before, probe.key))
         => (probe.result = "False" /\ probe.generator_iterators = probe.before)

====
